---- MODULE Spec2Model ----
(***************************************************************************)
(* The Bluetooth connection screen of ECleaningBT (src/unnamed/part_000)   *)
(* as a state machine.  The React state of the screen is the state; every  *)
(* press handler is cut at its awaits: one action starts the handler and   *)
(* runs it to its first await, one action per way the awaited call can     *)
(* come back runs it on to the next await or to its end.                   *)
(***************************************************************************)
EXTENDS Integers, Sequences, FiniteSets, TLC

VARIABLES
    devices,          \* useState<BluetoothDevice[]>([])        line 18
    connectedDevice,  \* useState<BluetoothDevice | null>(null) line 19
    loading,          \* useState(false)                        line 20
    scanning,         \* useState(false)                        line 21
    isBtEnabled,      \* useState(false)                        line 22
    platformOS,       \* Platform.OS
    osVersion,        \* Device.osVersion: a string (sequence of characters) or null
    mount,            \* the checkBluetooth() call of the mount effect
    discover,         \* the discoverDevices call in progress, or the last one
    granted,          \* the answer of PermissionsAndroid.requestMultiple not yet read
    connect,          \* the connectToDevice call in progress, or the last one
    disconnect,       \* the disconnectDevice call in progress, or the last one
    infoPlist,        \* mod.modResults: the Info.plist the config plugin is given
    applied           \* how many times withBluetoothClassic has been applied to it

vars == <<devices, connectedDevice, loading, scanning, isBtEnabled, platformOS,
          osVersion, mount, discover, granted, connect, disconnect, infoPlist, applied>>

\* The state of the screen, and the state of the build-time plugin.
screenVars == <<devices, connectedDevice, loading, scanning, isBtEnabled, platformOS,
                osVersion, mount, discover, granted, connect, disconnect>>

plistVars == <<infoPlist, applied>>

\* ---------------------------------------------------------------- bounds

\* Number of distinct peripherals (addresses) in range.
NumDevices == 2

\* Longest UIBackgroundModes list of a manifest handed to the plugin.
MaxModes == 2

\* How many times the plugin is applied to one manifest.
MaxApplications == 2

\* ---------------------------------------------------------------- values

None == "none"

\* A BluetoothDevice is identified by its address (keyExtractor, line 215).
Addresses == 1..NumDevices

\* Lists of distinct devices: what startDiscovery can return.
RECURSIVE ListsOver(_)
ListsOver(S) ==
    {<<>>} \cup UNION {{<<d>> \o l : l \in ListsOver(S \ {d})} : d \in S}

DiscoveryResults == ListsOver(Addresses)

ACCESS_FINE_LOCATION == "ACCESS_FINE_LOCATION"
BLUETOOTH_SCAN == "BLUETOOTH_SCAN"
BLUETOOTH_CONNECT == "BLUETOOTH_CONNECT"

\* PermissionsAndroid.RESULTS
GRANTED == "granted"
RESULTS == {"granted", "denied", "never_ask_again"}

\* Device.osVersion is string | null.  A string is its sequence of characters.
NullVersion == [null |-> TRUE, text |-> <<>>]
Version(s) == [null |-> FALSE, text |-> s]

\* How far below and above release 12 the Android releases tried reach.
ReleaseSpan == 3

\* The Android release from which BLUETOOTH_SCAN/CONNECT are runtime permissions.
ModernThreshold == 12

Releases == (ModernThreshold - ReleaseSpan)..(ModernThreshold + ReleaseSpan)

DigitChar == <<"0", "1", "2", "3", "4", "5", "6", "7", "8", "9">>

\* The decimal numeral of n, as the platform writes a release number.
RECURSIVE Numeral(_)
Numeral(n) ==
    IF n < 10 THEN <<DigitChar[n + 1]>>
    ELSE Numeral(n \div 10) \o <<DigitChar[(n % 10) + 1]>>

\* Release n as Device.osVersion reports it: "n", or "n.1" for a minor release.
ReleaseStrings(n) == {Version(Numeral(n)), Version(Numeral(n) \o <<".", "1">>)}

\* Device.osVersion when it names no release: null, the empty string, or a
\* preview build's code name.
UnknownVersions == {NullVersion, Version(<<>>), Version(<<"S">>)}

AndroidVersions == UnknownVersions \cup UNION {ReleaseStrings(n) : n \in Releases}

IosVersions == {Version(<<"1", "7", ".", "2">>)}

\* The null of useState<BluetoothDevice | null>(null): no address is 0.
NoDevice == 0

\* ------------------------------------------------------ requestPermissions

DigitValue ==
    ("0" :> 0) @@ ("1" :> 1) @@ ("2" :> 2) @@ ("3" :> 3) @@ ("4" :> 4) @@
    ("5" :> 5) @@ ("6" :> 6) @@ ("7" :> 7) @@ ("8" :> 8) @@ ("9" :> 9)

IsDigit(c) == c \in DOMAIN DigitValue

RECURSIVE parseDigits(_, _, _)
parseDigits(s, i, acc) ==
    IF i > Len(s) \/ ~IsDigit(s[i])
    THEN acc
    ELSE parseDigits(s, i + 1, acc * 10 + DigitValue[s[i]])

\* parseInt(s, 10) on a string of digits, dots and letters: the number its
\* leading digits spell, NaN when it does not begin with a digit.
parseInt(s) ==
    IF Len(s) = 0 \/ ~IsDigit(s[1])
    THEN [nan |-> TRUE, value |-> 0]
    ELSE [nan |-> FALSE, value |-> parseDigits(s, 1, 0)]

\* n < k in JavaScript: false when n is NaN.
LessThan(n, k) == ~n.nan /\ n.value < k

\* A string is truthy unless it is null or empty.
Truthy(v) == ~v.null /\ Len(v.text) > 0

\* Array.prototype.splice(start, deleteCount), start counted from 0: the array left.
splice(a, start, deleteCount) ==
    SubSeq(a, 1, start) \o SubSeq(a, start + deleteCount + 1, Len(a))

\* The comparison written <= 12 instead of < 12.
IsOlderAndroidInclusive(v) ==
    Truthy(v) /\ LessThan(parseInt(v.text), ModernThreshold + 1)

IsOlderAndroid(v) == Truthy(v) /\ LessThan(parseInt(v.text), ModernThreshold)

\* The permissions array requestPermissions hands to requestMultiple.
permissions(v) ==
    LET all == <<ACCESS_FINE_LOCATION, BLUETOOTH_SCAN, BLUETOOTH_CONNECT>>
    IN  IF IsOlderAndroid(v) THEN splice(all, 1, 2) ELSE all

\* The answers requestMultiple can give for the array p: one status for each
\* permission, in the array's order (Object.values of the returned object).
Answers(p) == [1..Len(p) -> RESULTS]

NoAnswer == <<>>

\* every written as some: one granted status is enough.
some(g) == \E i \in 1..Len(g) : g[i] = GRANTED

\* Object.values(granted).every(status => status === RESULTS.GRANTED)
every(g) == \A i \in 1..Len(g) : g[i] = GRANTED

\* -------------------------------------------------- withBluetoothClassic

Undefined == "undefined"

UsageDescription == "Allow Bluetooth access to connect to E-Cleaning devices"

BLUETOOTH_CENTRAL == "bluetooth-central"

BackgroundModes == {"audio", "fetch", BLUETOOTH_CENTRAL}

\* The lists of at most n elements of S.
ListsUpTo(S, n) == UNION {[1..k -> S] : k \in 0..n}

\* An Info.plist, as far as the plugin reads or writes it.  A manifest with no
\* UIBackgroundModes key is written with the empty list.
Plist(always, peripheral, modes) ==
    [NSBluetoothAlwaysUsageDescription |-> always,
     NSBluetoothPeripheralUsageDescription |-> peripheral,
     UIBackgroundModes |-> modes]

NoPlist == Plist(Undefined, Undefined, <<>>)

\* The manifests the plugin is handed: fresh ones, ones another plugin or the
\* app configuration has written to, and ones this plugin has patched before.
Manifests ==
    {Plist(a, p, m) : a \in {Undefined, "Uses Bluetooth", UsageDescription},
                      p \in {Undefined, "Uses Bluetooth", UsageDescription},
                      m \in ListsUpTo(BackgroundModes, MaxModes)}

\* A plugin that pushes its tag onto the list it finds.
appendedModes(modes) == Append(modes, BLUETOOTH_CENTRAL)

\* mod.modResults.UIBackgroundModes = ['bluetooth-central']
patchedModes(modes) == <<BLUETOOTH_CENTRAL>>

\* The callback withBluetoothClassic hands to withInfoPlist, applied to the
\* manifest.
withBluetoothClassic ==
    /\ applied < MaxApplications
    /\ infoPlist' = Plist(UsageDescription, UsageDescription,
                          patchedModes(infoPlist.UIBackgroundModes))
    /\ applied' = applied + 1
    /\ UNCHANGED screenVars

\* ------------------------------------------------------------------ state

Idle == "idle"

NoDiscover ==
    [pc |-> Idle, calls |-> <<>>, requested |-> <<>>, hasPermissions |-> FALSE,
     refused |-> {}, enabled |-> FALSE, threw |-> None, alert |-> None, log |-> None,
     result |-> None, found |-> <<>>]

NoCall == [pc |-> Idle, device |-> NoDevice, result |-> None, alert |-> None, log |-> None]

ScreenInit ==
    /\ devices = <<>>
    /\ connectedDevice = NoDevice
    /\ loading = FALSE
    /\ scanning = FALSE
    /\ isBtEnabled = FALSE
    /\ \/ platformOS = "android" /\ osVersion \in AndroidVersions
       \/ platformOS = "ios" /\ osVersion \in IosVersions
    \* useEffect(() => { checkBluetooth(); }, []) has run to its await
    /\ mount = [pc |-> "isBluetoothEnabled", log |-> None, alert |-> None]
    /\ discover = NoDiscover
    /\ granted = NoAnswer
    /\ connect = NoCall
    /\ disconnect = NoCall

\* The screen at mount; the plugin, a build-time step, is not part of its run.
Init ==
    /\ ScreenInit
    /\ infoPlist = NoPlist
    /\ applied = 0

\* -------------------------------------------------------- checkBluetooth

\* try: isBluetoothEnabled() answered `enabled`.
checkBluetoothTry(enabled) ==
    [isBtEnabled |-> enabled, returns |-> enabled, log |-> None, alert |-> None]

\* catch: isBluetoothEnabled() threw.
checkBluetoothCatch ==
    [isBtEnabled |-> isBtEnabled, returns |-> FALSE, log |-> "Bluetooth check failed",
     alert |-> None]

MountCheck(r) ==
    /\ mount.pc = "isBluetoothEnabled"
    /\ isBtEnabled' = r.isBtEnabled
    /\ mount' = [pc |-> "done", log |-> r.log, alert |-> r.alert]
    /\ UNCHANGED <<devices, connectedDevice, loading, scanning, platformOS, osVersion,
                   discover, granted, connect, disconnect, infoPlist, applied>>

MountCheckReturns == \E enabled \in BOOLEAN : MountCheck(checkBluetoothTry(enabled))

MountCheckThrows == MountCheck(checkBluetoothCatch)

\* ------------------------------------------------------- discoverDevices

\* setScanning(false) written as the last statement of the try block.
discoverFinallyInTry(d) ==
    /\ discover' = [d EXCEPT !.pc = Idle]
    /\ scanning' = IF d.result = "success" THEN FALSE ELSE scanning

\* finally { setScanning(false) }: the call ends with record d.
discoverFinally(d) ==
    /\ discover' = [d EXCEPT !.pc = Idle]
    /\ scanning' = FALSE

\* A catch block that calls checkBluetooth() again.
discoverCatchRechecking(who) ==
    /\ discover' = [discover EXCEPT !.pc = Idle, !.threw = who, !.alert = "Error",
                                    !.log = "Discovery error", !.result = "error",
                                    !.calls = Append(@, "checkBluetooth")]
    /\ scanning' = FALSE

\* The catch block without its console.error.
discoverCatchSilent(who) ==
    /\ discover' = [discover EXCEPT !.pc = Idle, !.threw = who, !.alert = "Error",
                                    !.result = "error"]
    /\ scanning' = FALSE

\* catch (error): the awaited call `who` threw.
discoverCatch(who) ==
    discoverFinally([discover EXCEPT !.threw = who, !.log = "Discovery error",
                                     !.alert = "Error", !.result = "error"])

\* The handler without its setDevices([]).
keptDevices == devices

\* setDevices([])
clearedDevices == <<>>

\* The refresh button without its disabled attribute.
refreshNeverDisabled == FALSE

\* The refresh button's disabled={scanning}.
refreshDisabled == scanning

\* The refresh button is pressed (it is disabled while scanning): the handler
\* runs to the await in requestPermissions.
discoverDevices ==
    /\ ~refreshDisabled
    /\ scanning' = TRUE
    /\ devices' = clearedDevices
    /\ discover' = [NoDiscover EXCEPT
                        !.pc = "requestPermissions",
                        !.calls = <<"requestPermissions">>,
                        !.requested = IF platformOS = "android"
                                      THEN permissions(osVersion) ELSE <<>>,
                        !.result = "running"]
    /\ UNCHANGED <<connectedDevice, loading, isBtEnabled, platformOS, osVersion, mount,
                   granted, connect, disconnect, infoPlist, applied>>

\* PermissionsAndroid.requestMultiple(permissions) answers.
requestMultipleAnswers ==
    /\ discover.pc = "requestPermissions"
    /\ platformOS = "android"
    /\ \E g \in Answers(discover.requested) : granted' = g
    /\ discover' = [discover EXCEPT !.pc = "hasPermissions"]
    /\ UNCHANGED <<devices, connectedDevice, loading, scanning, isBtEnabled, platformOS,
                   osVersion, mount, connect, disconnect, infoPlist, applied>>

\* PermissionsAndroid.requestMultiple(permissions) throws.
requestMultipleThrows ==
    /\ discover.pc = "requestPermissions"
    /\ platformOS = "android"
    /\ discoverCatch("requestPermissions")
    /\ UNCHANGED <<devices, connectedDevice, loading, isBtEnabled, platformOS, osVersion,
                   mount, granted, connect, disconnect, infoPlist, applied>>

\* The else branch of requestPermissions: Permissions is no import of the file
\* and no global, so evaluating Permissions.askAsync throws a ReferenceError.
askAsyncThrows ==
    /\ discover.pc = "requestPermissions"
    /\ platformOS # "android"
    /\ discoverCatch("requestPermissions")
    /\ UNCHANGED <<devices, connectedDevice, loading, isBtEnabled, platformOS, osVersion,
                   mount, granted, connect, disconnect, infoPlist, applied>>

\* The capabilities of the array p that the answer g reports as not granted.
Refused(p, g) == {p[i] : i \in {j \in 1..Len(p) : g[j] # GRANTED}}

\* The permission branch without its return.
neverAborts(hasPermissions) == FALSE

\* if (!hasPermissions) { alert; return }
abortsWithoutPermissions(hasPermissions) == ~hasPermissions

\* requestPermissions returns every(granted); discoverDevices goes on to the
\* await in checkBluetooth, or alerts and returns.
hasPermissionsReturned ==
    /\ discover.pc = "hasPermissions"
    /\ granted' = NoAnswer
    /\ LET hasPermissions == every(granted)
       IN  IF abortsWithoutPermissions(hasPermissions)
           THEN discoverFinally([discover EXCEPT
                                    !.hasPermissions = hasPermissions,
                                    !.refused = Refused(discover.requested, granted),
                                    !.alert = "Permissions required",
                                    !.result = "permissionDenied"])
           ELSE /\ discover' = [discover EXCEPT
                                    !.hasPermissions = hasPermissions,
                                    !.pc = "checkBluetooth",
                                    !.calls = Append(@, "checkBluetooth")]
                /\ UNCHANGED scanning
    /\ UNCHANGED <<devices, connectedDevice, loading, isBtEnabled, platformOS, osVersion,
                   mount, connect, disconnect, infoPlist, applied>>

\* if (!enabled) { alert; return }
abortsWhenDisabled(enabled) == ~enabled

\* checkBluetooth() came back with r; discoverDevices goes on to the await of
\* startDiscovery, or alerts and returns.
enabledReturned(r) ==
    /\ discover.pc = "checkBluetooth"
    /\ isBtEnabled' = r.isBtEnabled
    /\ IF abortsWhenDisabled(r.returns)
       THEN discoverFinally([discover EXCEPT
                                !.enabled = r.returns,
                                !.log = r.log,
                                !.alert = "Bluetooth disabled",
                                !.result = "adapterDisabled"])
       ELSE /\ discover' = [discover EXCEPT
                                !.enabled = r.returns,
                                !.log = r.log,
                                !.pc = "startDiscovery",
                                !.calls = Append(@, "startDiscovery")]
            /\ UNCHANGED scanning
    /\ UNCHANGED <<devices, connectedDevice, loading, platformOS, osVersion, mount,
                   granted, connect, disconnect, infoPlist, applied>>

discoverCheckReturns == \E enabled \in BOOLEAN : enabledReturned(checkBluetoothTry(enabled))

discoverCheckThrows == enabledReturned(checkBluetoothCatch)

\* RNBluetoothClassic.startDiscovery() answers.
startDiscoveryReturns ==
    /\ discover.pc = "startDiscovery"
    /\ \E discovered \in DiscoveryResults :
          /\ devices' = discovered
          /\ discoverFinally([discover EXCEPT !.found = discovered, !.result = "success"])
    /\ UNCHANGED <<connectedDevice, loading, isBtEnabled, platformOS, osVersion, mount,
                   granted, connect, disconnect, infoPlist, applied>>

\* A catch block of discoverDevices that also drops the connection.
startDiscoveryThrowsDisconnecting ==
    /\ discover.pc = "startDiscovery"
    /\ discoverCatch("startDiscovery")
    /\ connectedDevice' = NoDevice
    /\ UNCHANGED <<devices, loading, isBtEnabled, platformOS, osVersion, mount, granted,
                   connect, disconnect, infoPlist, applied>>

\* RNBluetoothClassic.startDiscovery() throws.
startDiscoveryThrows ==
    /\ discover.pc = "startDiscovery"
    /\ discoverCatch("startDiscovery")
    /\ UNCHANGED <<devices, connectedDevice, loading, isBtEnabled, platformOS, osVersion,
                   mount, granted, connect, disconnect, infoPlist, applied>>

\* ------------------------------------------------------- connectToDevice

\* The devices the FlatList shows a button for.
Listed == {devices[i] : i \in 1..Len(devices)}

\* setLoading(false) written as the last statement of the try block.
connectFinallyInTry(c) ==
    /\ connect' = [c EXCEPT !.pc = Idle]
    /\ loading' = IF c.result = "threw" THEN loading ELSE FALSE

\* finally { setLoading(false) }: the call ends with record c.
connectFinally(c) ==
    /\ connect' = [c EXCEPT !.pc = Idle]
    /\ loading' = FALSE

\* The device buttons disabled only while a device is connected.
deviceButtonDisabledWhenConnected == connectedDevice # NoDevice

\* A device button's disabled={!!connectedDevice || loading}.
deviceButtonDisabled == connectedDevice # NoDevice \/ loading

\* A device's button is pressed: the handler runs to the await of
\* device.connect().
connectToDevice ==
    /\ ~deviceButtonDisabled
    /\ \E device \in Listed :
          connect' = [NoCall EXCEPT !.pc = "connect", !.device = device,
                                    !.result = "running"]
    /\ loading' = TRUE
    /\ UNCHANGED <<devices, connectedDevice, scanning, isBtEnabled, platformOS, osVersion,
                   mount, discover, granted, disconnect, infoPlist, applied>>

\* The test of isConnected inverted.
connectedUnlessConnected(isConnected, device) ==
    IF isConnected THEN connectedDevice ELSE device

\* setConnectedDevice(device) without the test of isConnected.
connectedAlways(isConnected, device) == device

\* What connectToDevice records when device.connect() answered isConnected.
connectedAfter(isConnected, device) ==
    IF isConnected THEN device ELSE connectedDevice

\* device.connect() answers.
connectReturns ==
    /\ connect.pc = "connect"
    /\ \E isConnected \in BOOLEAN :
          /\ connectedDevice' = connectedAfter(isConnected, connect.device)
          /\ connectFinally([connect EXCEPT
                                !.result = IF isConnected THEN "true" ELSE "false",
                                !.alert = IF isConnected THEN None
                                          ELSE "Connection failed"])
    /\ UNCHANGED <<devices, scanning, isBtEnabled, platformOS, osVersion, mount, discover,
                   granted, disconnect, infoPlist, applied>>

\* device.connect() throws.
connectThrows ==
    /\ connect.pc = "connect"
    /\ connectFinally([connect EXCEPT !.result = "threw", !.log = "Connection error",
                                      !.alert = "Error"])
    /\ UNCHANGED <<devices, connectedDevice, scanning, isBtEnabled, platformOS, osVersion,
                   mount, discover, granted, disconnect, infoPlist, applied>>

\* ------------------------------------------------------ disconnectDevice

\* finally { setLoading(false) }: the call ends with record c.
disconnectFinally(c) ==
    /\ disconnect' = [c EXCEPT !.pc = Idle]
    /\ loading' = FALSE

\* The disconnect button's disabled={loading}.
disconnectButtonDisabled == loading

\* The disconnect button is pressed (it is rendered only while a device is
\* connected): the handler runs to the await of connectedDevice.disconnect().
disconnectDevice ==
    /\ connectedDevice # NoDevice
    /\ ~disconnectButtonDisabled
    /\ disconnect' = [NoCall EXCEPT !.pc = "disconnect", !.device = connectedDevice,
                                    !.result = "running"]
    /\ loading' = TRUE
    /\ UNCHANGED <<devices, connectedDevice, scanning, isBtEnabled, platformOS, osVersion,
                   mount, discover, granted, connect, infoPlist, applied>>

\* A handler without the test of connectedDevice: null.disconnect() is a
\* TypeError, which its catch block reports.
disconnectNothingUnguarded ==
    /\ connectedDevice = NoDevice
    /\ disconnect' = [NoCall EXCEPT !.result = "nothing", !.log = "Disconnection error",
                                    !.alert = "Error"]
    /\ UNCHANGED <<devices, connectedDevice, loading, scanning, isBtEnabled, platformOS,
                   osVersion, mount, discover, granted, connect, infoPlist, applied>>

\* disconnectDevice() called while connectedDevice is null: the if of line 110
\* is false and the function returns.  The record notes the call.
disconnectNothing ==
    /\ connectedDevice = NoDevice
    /\ disconnect' = [NoCall EXCEPT !.result = "nothing"]
    /\ UNCHANGED <<devices, connectedDevice, loading, scanning, isBtEnabled, platformOS,
                   osVersion, mount, discover, granted, connect, infoPlist, applied>>

\* connectedDevice.disconnect() answers; its boolean is not read:
\* await connectedDevice.disconnect(); setConnectedDevice(null).
disconnectReturns ==
    /\ disconnect.pc = "disconnect"
    /\ \E ok \in BOOLEAN :
          /\ connectedDevice' = NoDevice
          /\ disconnectFinally([disconnect EXCEPT
                                   !.result = IF ok THEN "true" ELSE "false"])
    /\ UNCHANGED <<devices, scanning, isBtEnabled, platformOS, osVersion, mount, discover,
                   granted, connect, infoPlist, applied>>

\* connectedDevice.disconnect() throws.
disconnectThrows ==
    /\ disconnect.pc = "disconnect"
    /\ disconnectFinally([disconnect EXCEPT !.result = "threw",
                                            !.log = "Disconnection error",
                                            !.alert = "Error"])
    /\ UNCHANGED <<devices, connectedDevice, scanning, isBtEnabled, platformOS, osVersion,
                   mount, discover, granted, connect, infoPlist, applied>>

\* ---------------------------------------------------------- specification

Next ==
    \/ MountCheckReturns
    \/ MountCheckThrows
    \/ discoverDevices
    \/ requestMultipleAnswers
    \/ requestMultipleThrows
    \/ askAsyncThrows
    \/ hasPermissionsReturned
    \/ discoverCheckReturns
    \/ discoverCheckThrows
    \/ startDiscoveryReturns
    \/ startDiscoveryThrows
    \/ connectToDevice
    \/ connectReturns
    \/ connectThrows
    \/ disconnectDevice
    \/ disconnectNothing
    \/ disconnectReturns
    \/ disconnectThrows

Spec == Init /\ [][Next]_vars

\* Every awaited call into the permission and Bluetooth collaborators comes
\* back, by answering or by throwing, and the event loop runs the continuation
\* of a settled promise.
CollaboratorsAnswer ==
    /\ WF_vars(MountCheckReturns \/ MountCheckThrows)
    /\ WF_vars(requestMultipleAnswers \/ requestMultipleThrows \/ askAsyncThrows)
    /\ WF_vars(hasPermissionsReturned)
    /\ WF_vars(discoverCheckReturns \/ discoverCheckThrows)
    /\ WF_vars(startDiscoveryReturns \/ startDiscoveryThrows)
    /\ WF_vars(connectReturns \/ connectThrows)
    /\ WF_vars(disconnectReturns \/ disconnectThrows)

\* The screen at mount on iOS, on an Android of unknown release and on the
\* last Android release below 12: the three ways requestPermissions can go.
FairInit ==
    /\ Init
    /\ osVersion \in IosVersions \cup {NullVersion, Version(Numeral(ModernThreshold - 1))}

FairSpec == FairInit /\ [][Next]_vars /\ CollaboratorsAnswer

\* The build: a manifest is handed to the plugin, once or again.
PlistInit ==
    /\ ScreenInit
    /\ infoPlist \in Manifests
    /\ applied = 0

PlistSpec == PlistInit /\ [][withBluetoothClassic]_vars

TypeOK ==
    /\ devices \in DiscoveryResults
    /\ connectedDevice \in Addresses \cup {NoDevice}
    /\ loading \in BOOLEAN /\ scanning \in BOOLEAN /\ isBtEnabled \in BOOLEAN
    /\ discover.pc \in {Idle, "requestPermissions", "hasPermissions", "checkBluetooth",
                        "startDiscovery"}
    /\ connect.pc \in {Idle, "connect"}
    /\ disconnect.pc \in {Idle, "disconnect"}

\* ------------------------------------------------------------ properties

Range(f) == {f[i] : i \in DOMAIN f}

DiscoverFinished == discover.pc = Idle /\ discover.result # None

ConnectFinishes == connect.pc = "connect" /\ connect'.pc = Idle

DisconnectFinishes == disconnect.pc = "disconnect" /\ disconnect'.pc = Idle

\* C1: whenever a discoverDevices call has finished, whatever its outcome
\* (success, permission denied, adapter disabled, or an exception of the
\* permission request, the adapter check or startDiscovery), scanning is false.
C1_ScanningFalseAfterDiscover == DiscoverFinished => ~scanning

\* A discover whose startDiscovery threw has finished.
C1_Witness ==
    DiscoverFinished /\ discover.threw = "startDiscovery" /\ ~scanning

\* C2: the step that ends a connectToDevice or a disconnectDevice call leaves
\* loading false, whether the device operation answered true, false or threw.
C2_LoadingFalseAfterCall ==
    [][(ConnectFinishes \/ DisconnectFinishes) => ~loading']_vars

\* A disconnect that threw has finished, after a connect that answered true.
C2_Witness ==
    /\ disconnect.pc = Idle /\ disconnect.result = "threw"
    /\ connect.pc = Idle /\ connect.result = "true"
    /\ ~loading

\* C3: a disconnectDevice call clears the connected device only when the
\* device's disconnect() succeeded; when it answered false or threw, the device
\* is still recorded as connected and an alert was shown.
C3_DisconnectClearsOnlyOnSuccess ==
    [][DisconnectFinishes =>
          IF disconnect'.result = "true"
          THEN connectedDevice' = NoDevice
          ELSE connectedDevice' = disconnect.device /\ disconnect'.alert # None]_vars

\* C4: the step that ends a connectToDevice call leaves no device connected and
\* an alert shown when device.connect() answered false or threw, and leaves
\* exactly the device of the call connected when it answered true.
C4_ConnectOutcome ==
    [][ConnectFinishes =>
          IF connect'.result = "true"
          THEN connectedDevice' = connect.device /\ connect.device # NoDevice
          ELSE connectedDevice' = NoDevice /\ connect'.alert # None]_vars

\* A connect that answered false has finished with its alert.
C4_Witness ==
    /\ connect.pc = Idle /\ connect.result = "false"
    /\ connect.alert = "Connection failed"
    /\ connectedDevice = NoDevice

CallOrder == <<"requestPermissions", "checkBluetooth", "startDiscovery">>

\* The permission request of the call has come back, and not with every
\* capability granted.
PermissionDenied ==
    /\ discover.calls # <<>>
    /\ discover.pc \notin {"requestPermissions", "hasPermissions"}
    /\ discover.threw # "requestPermissions"
    /\ ~discover.hasPermissions

\* C5: the steps of one discover run in the order permission request, adapter
\* check, startDiscovery, each only if the one before passed; after a denied
\* permission request the call made neither the adapter check nor
\* startDiscovery, and showed the alert.
C5_GuardedSequence ==
    /\ discover.calls = SubSeq(CallOrder, 1, Len(discover.calls))
    /\ Len(discover.calls) >= 2 => discover.hasPermissions
    /\ Len(discover.calls) >= 3 => discover.enabled
    /\ PermissionDenied =>
          /\ discover.calls = <<"requestPermissions">>
          /\ discover.alert = "Permissions required"
          /\ discover.pc = Idle

\* A discover ended on a denied permission request.
C5_Witness ==
    /\ PermissionDenied
    /\ discover.calls = <<"requestPermissions">>
    /\ discover.alert = "Permissions required"

\* C6: after a discover that completed no discovery the device list is empty;
\* after a successful one it is the list that startDiscovery call returned.
C6_DeviceListAfterDiscover ==
    DiscoverFinished =>
        IF discover.result = "success"
        THEN devices = discover.found
        ELSE devices = <<>>

\* A discover failed while a device was connected: the connected device was
\* taken from the list of an earlier scan, and the list is empty now.
C6_Witness ==
    /\ DiscoverFinished /\ discover.result = "adapterDisabled"
    /\ connectedDevice # NoDevice
    /\ devices = <<>>

\* The step in which a checkBluetooth call catches a failed query.
CheckFails ==
    \/ mount.pc = "isBluetoothEnabled" /\ mount'.log = "Bluetooth check failed"
    \/ discover.pc = "checkBluetooth" /\ discover'.log = "Bluetooth check failed"

\* The same step of the check that discoverDevices awaits.
DiscoverCheckFails ==
    discover.pc = "checkBluetooth" /\ discover'.log = "Bluetooth check failed"

\* C7: a checkBluetooth whose query failed does not throw to its caller,
\* returns false, and leaves isBtEnabled false, also when it was true before.
C7_FailedCheckRecordsDisabled ==
    [][CheckFails =>
          /\ ~isBtEnabled'
          /\ DiscoverCheckFails =>
                discover'.threw = None /\ discover'.result = "adapterDisabled"]_vars

FailedDiscover == DiscoverFinished /\ discover.result # "success"

C9_OtherPlatformPermissions ==
    (platformOS # "android" /\ DiscoverFinished) =>
        /\ discover.threw # "requestPermissions"
        /\ \/ Len(discover.calls) >= 2
           \/ discover.alert = "Permissions required"

\* The capabilities the discover in progress, or the last one, requested.
Requested == Range(discover.requested)

\* C10: on Android, for every release at or above 12 the requested set holds
\* the scan and connect capabilities, for every release below 12 it is the
\* location capability alone, and an unknown version is treated as modern.
C10_RequestedCapabilities ==
    (platformOS = "android" /\ discover.calls # <<>>) =>
        /\ \A n \in Releases :
              osVersion \in ReleaseStrings(n) =>
                 IF n >= ModernThreshold
                 THEN {BLUETOOTH_SCAN, BLUETOOTH_CONNECT} \subseteq Requested
                 ELSE Requested = {ACCESS_FINE_LOCATION}
        /\ osVersion \in UnknownVersions =>
              Requested = {ACCESS_FINE_LOCATION, BLUETOOTH_SCAN, BLUETOOTH_CONNECT}

\* Release 11 asked for the location capability alone.
C10_Witness ==
    /\ platformOS = "android"
    /\ osVersion = Version(Numeral(ModernThreshold - 1))
    /\ discover.requested = <<ACCESS_FINE_LOCATION>>

\* The step in which requestPermissions returns to discoverDevices.
PermissionsReturn == discover.pc = "hasPermissions" /\ discover'.pc # "hasPermissions"

\* Every requested capability is reported granted in the answer not yet read.
AllGranted == Range(granted) \subseteq {GRANTED}

\* C11: requestPermissions returns true exactly when every capability of the
\* requested set was reported granted; with one capability not granted it
\* returns false and discoverDevices ends before the adapter check.
C11_TrueIffAllGranted ==
    [][PermissionsReturn =>
          /\ discover'.hasPermissions <=> AllGranted
          /\ Len(granted) = Len(discover.requested)
          /\ ~AllGranted =>
                /\ discover'.pc = Idle
                /\ discover'.calls = <<"requestPermissions">>
                /\ discover'.alert = "Permissions required"]_vars

\* A discover ended because one of three requested capabilities was refused.
C11_Witness ==
    /\ DiscoverFinished
    /\ discover.requested = <<ACCESS_FINE_LOCATION, BLUETOOTH_SCAN, BLUETOOTH_CONNECT>>
    /\ discover.refused = {BLUETOOTH_CONNECT}
    /\ discover.calls = <<"requestPermissions">>

\* The step in which a discoverDevices call starts.
DiscoverStarts == discover' # discover /\ discover'.pc = "requestPermissions"

\* C12: a discoverDevices call starts only while none is in progress and
\* scanning is false, so no two calls are in progress at once, and scanning
\* is true exactly while a call is in progress.
C12_OneDiscoverAtATime ==
    /\ [](scanning <=> discover.pc # Idle)
    /\ [][DiscoverStarts => discover.pc = Idle /\ ~scanning]_vars

\* A second discover is in progress, after one that succeeded.
C12_Witness ==
    /\ scanning
    /\ discover.pc = "startDiscovery"
    /\ connectedDevice # NoDevice

\* C13: at most one device is recorded as connected, and it is none or the
\* device of the most recent connectToDevice call, which answered true and
\* which no disconnect has cleared since.
C13_ConnectedIsLastConnect ==
    /\ connectedDevice \in Addresses \cup {NoDevice}
    /\ connectedDevice # NoDevice =>
          /\ connect.pc = Idle
          /\ connect.result = "true"
          /\ connect.device = connectedDevice
    /\ (disconnect.pc = Idle /\ disconnect.result \in {"true", "false"}) =>
          \/ connectedDevice = NoDevice
          \/ connect.result = "true" /\ connect.device = connectedDevice

\* A second connect answered true, for another device than the first, which a
\* disconnect had cleared.
C13_Witness ==
    /\ connectedDevice # NoDevice
    /\ connect.result = "true" /\ connect.device = connectedDevice
    /\ disconnect.pc = Idle /\ disconnect.result = "true"
    /\ disconnect.device # connectedDevice

\* A step of checkBluetooth, requestPermissions or discoverDevices.
AdapterOrDiscoverStep == mount' # mount \/ discover' # discover \/ granted' # granted

\* C14: no device is connected at the start, and the connected device and
\* loading change only in a step of connectToDevice or disconnectDevice:
\* every step of checkBluetooth, requestPermissions and discoverDevices, on
\* its error paths too, leaves both unchanged.
C14_ConnectionFrame ==
    /\ connectedDevice = NoDevice /\ ~loading
    /\ [][/\ AdapterOrDiscoverStep => UNCHANGED <<connectedDevice, loading>>
          /\ (connectedDevice' # connectedDevice \/ loading' # loading) =>
                (connect' # connect \/ disconnect' # disconnect)]_vars

\* A discover failed in startDiscovery while a device was connected and a
\* disconnect was in progress; both are as they were.
C14_Witness ==
    /\ DiscoverFinished /\ discover.threw = "startDiscovery"
    /\ connectedDevice # NoDevice
    /\ loading /\ disconnect.pc = "disconnect"

\* How many adapter checks the discover in progress, or the last one, made.
AdapterChecks ==
    Cardinality({i \in 1..Len(discover.calls) : discover.calls[i] = "checkBluetooth"})

DisconnectsNothing == disconnect' # disconnect /\ disconnect'.result = "nothing"

\* C18: disconnectDevice called while no device is connected makes no call to
\* the collaborator, shows no alert and leaves loading, scanning, the device
\* list and the connection state unchanged.
C18_DisconnectWithoutDevice ==
    [][(connectedDevice = NoDevice /\ disconnect' # disconnect) =>
          /\ disconnect'.result = "nothing"
          /\ disconnect'.pc = Idle
          /\ disconnect'.alert = None /\ disconnect'.log = None
          /\ UNCHANGED <<loading, scanning, devices, connectedDevice, isBtEnabled,
                         connect, discover>>]_vars

\* disconnectDevice was called with no device connected, in the middle of a
\* scan and of a connect.
C18_Witness ==
    /\ disconnect.result = "nothing"
    /\ connectedDevice = NoDevice
    /\ scanning /\ loading /\ connect.pc = "connect"

\* The step in which a connectToDevice call starts.
ConnectStarts == connect' # connect /\ connect'.pc = "connect"

\* The step in which a disconnectDevice call reaches the collaborator.
DisconnectStarts == disconnect' # disconnect /\ disconnect'.pc = "disconnect"

\* C19: a connect starts only while no device is connected, loading is false
\* and no connect or disconnect is in progress; a disconnect only while
\* loading is false and none is in progress; so at most one of them is in
\* progress at a time, and the connected device never changes from one device
\* to another in one step.
C19_NoOverlap ==
    /\ [](~(connect.pc # Idle /\ disconnect.pc # Idle))
    /\ [](loading <=> (connect.pc # Idle \/ disconnect.pc # Idle))
    /\ [][/\ ConnectStarts =>
                /\ connectedDevice = NoDevice /\ ~loading
                /\ connect.pc = Idle /\ disconnect.pc = Idle
          /\ DisconnectStarts =>
                /\ ~loading
                /\ connect.pc = Idle /\ disconnect.pc = Idle
          /\ connectedDevice' # connectedDevice =>
                (connectedDevice = NoDevice \/ connectedDevice' = NoDevice)]_vars

\* A disconnect is in progress for the connected device, while another device
\* is listed.
C19_Witness ==
    /\ disconnect.pc = "disconnect" /\ loading
    /\ connect.pc = Idle /\ connect.result = "true"
    /\ connectedDevice = connect.device
    /\ \E d \in Listed : d # connectedDevice

\* The step in which the plugin patches the manifest.
Patches == applied' = applied + 1

\* How often the background-mode list names bluetooth-central.
CentralEntries ==
    Cardinality({i \in 1..Len(infoPlist.UIBackgroundModes) :
                    infoPlist.UIBackgroundModes[i] = BLUETOOTH_CENTRAL})

\* C16: the plugin appends bluetooth-central to the background-mode list, so
\* every entry the list held before the patch is still in it after, and the
\* two usage-description fields hold the fixed string.
C16_PatchKeepsBackgroundModes ==
    [][Patches =>
          /\ Range(infoPlist.UIBackgroundModes) \subseteq Range(infoPlist'.UIBackgroundModes)
          /\ BLUETOOTH_CENTRAL \in Range(infoPlist'.UIBackgroundModes)
          /\ infoPlist'.NSBluetoothAlwaysUsageDescription = UsageDescription
          /\ infoPlist'.NSBluetoothPeripheralUsageDescription = UsageDescription]_vars

\* C20: applying the plugin to a manifest it has patched leaves the manifest
\* as the first application left it; the background-mode list of a patched
\* manifest names bluetooth-central exactly once.
C20_PatchIdempotent ==
    /\ [](applied >= 1 => CentralEntries = 1)
    /\ [][(applied >= 1 /\ Patches) => infoPlist' = infoPlist]_vars

\* The plugin has been applied twice.
C20_Witness ==
    /\ applied >= 2
    /\ infoPlist = Plist(UsageDescription, UsageDescription, <<BLUETOOTH_CENTRAL>>)

\* C17: provided every call into the collaborators returns or throws, every
\* started discover reaches scanning = false and every started connect or
\* disconnect reaches loading = false.
C17_FlagsComeDown == (scanning ~> ~scanning) /\ (loading ~> ~loading)

\* A discover that went through to startDiscovery and a connect have both
\* ended, and both flags are down.
C17_Witness ==
    /\ DiscoverFinished /\ discover.calls = CallOrder /\ ~scanning
    /\ connect.pc = Idle /\ connect.result = "false" /\ ~loading

====
